---- MODULE Spec2Model ----
(***************************************************************************)
(* project-overview: the session object AppModel (src/src/app/mod.rs),     *)
(* its Config (src/src/config.rs), the program registry and the project    *)
(* scan.  Strings are sequences of one-character strings; an Option is the *)
(* empty tuple (None) or a one-element tuple (Some).                       *)
(*                                                                         *)
(* Messages reach AppModel::update through the runtime's queue `msgs`.     *)
(* The widgets that emit them belong to the view built from the state the  *)
(* last time the queue was drained (`view`): the runtime hands every input *)
(* event of one batch to the same widget tree, runs update for each        *)
(* message produced, and only then calls view again.                       *)
(***************************************************************************)
EXTENDS Integers, Sequences, FiniteSets, TLC

VARIABLES
    status,                 \* "running", or "panicked" once an unwrap failed
    config_handler,         \* AppModel.config_handler: "None" | "Some"
    config,                 \* AppModel.config: [project_root_path, programs]
    store,                  \* the backing store, one entry per Config field
    programs,               \* AppModel.programs
    projects,               \* AppModel.projects
    root_path_input,        \* AppModel.root_path_input
    program_name_input,     \* AppModel.program_name_input
    program_command_input,  \* AppModel.program_command_input
    msgs,                   \* messages queued for AppModel::update
    view,                   \* what the widgets of the current view were built from
    fs,                     \* the file system: path -> directory state
    last,                   \* the message update handled last, what its setter
                            \* did, and the registry it found
    events,                 \* number of input events so far
    search_text,            \* AppModel.search_text
    shown,                  \* the project rows of the current view, in order
    spawned                 \* the Command the last LaunchProject spawned, if any

vars == <<status, config_handler, config, store, programs, projects,
          root_path_input, program_name_input, program_command_input,
          msgs, view, fs, last, events, search_text, shown, spawned>>

----------------------------------------------------------------------------
(* Bounds *)

MaxEvents == 4
MaxBatch == 2
MaxPrograms == 2
MaxEntries == 2
MaxListed == 3

----------------------------------------------------------------------------
(* Strings *)

Placeholder == <<"%", "p", "a", "t", "h", "%">>

NameA == <<"a">>
NameB == <<"b">>
NameInputs == {<<>>, NameA, NameB}

CmdPath == Placeholder
CmdCodePath == <<"c", " ">> \o Placeholder
CmdNoClose == <<"%", "p", "a", "t", "h">>
CommandInputs == {<<>>, CmdPath, CmdCodePath, CmdNoClose}

PathR == <<"/", "r">>
PathS == <<"/", "s">>
PathGone == <<"/", "g">>
PathLocked == <<"/", "l">>
Paths == {PathR, PathS, PathGone, PathLocked}
RootInputs == {PathS, PathGone}

None == <<>>
Some(x) == <<x>>

\* str::starts_with
starts_with(s, pat) ==
    /\ Len(pat) <= Len(s)
    /\ \A i \in 1..Len(pat) : s[i] = pat[i]

\* str::contains(&str): scan the haystack from the left for the pattern
RECURSIVE contains(_, _)
contains(s, pat) ==
    IF starts_with(s, pat) THEN TRUE
    ELSE IF s = <<>> THEN FALSE
    ELSE contains(Tail(s), pat)

----------------------------------------------------------------------------
(* domain::program *)

Program(name, command) == [name |-> name, command |-> command]

is_valid_command_prefix(command) == starts_with(command, Placeholder)

is_valid_command(command) == contains(command, Placeholder)

----------------------------------------------------------------------------
(* config *)

ConfigDefault == [project_root_path |-> None, programs |-> <<>>]

Missing == [st |-> "missing", v |-> <<>>]
Corrupt == [st |-> "corrupt", v |-> <<>>]
Stored(v) == [st |-> "ok", v |-> v]

\* ConfigGet::get of one key: the stored value, or the field's default when
\* the key cannot be read or parsed
get_field(st, field) ==
    IF st[field].st = "ok" THEN st[field].v ELSE ConfigDefault[field]

get_entry_all_or_nothing(st) ==
    IF \E f \in {"project_root_path", "programs"} : st[f].st # "ok"
    THEN ConfigDefault
    ELSE [project_root_path |-> get_field(st, "project_root_path"),
          programs |-> get_field(st, "programs")]

\* CosmicConfigEntry::get_entry: starts from Config::default() and overwrites
\* each field whose key loads; the Config is returned with or without errors
get_entry(st) ==
    [project_root_path |-> get_field(st, "project_root_path"),
     programs |-> get_field(st, "programs")]

\* Config::load: backend is whether cosmic_config::Config::new succeeded
load(backend, st) ==
    IF backend
    THEN [handler |-> "Some", config |-> get_entry(st)]
    ELSE [handler |-> "None", config |-> ConfigDefault]

\* The setter #[derive(CosmicConfigEntry)] generates for one field
\* (set_programs, set_project_root_path): when the value differs from the
\* field it assigns the field and then writes the key; `ok` is whether that
\* write succeeds.  The callers discard the Result.
set_field(cfg, st, field, value, ok) ==
    IF cfg[field] = value
    THEN [config |-> cfg, store |-> st, wrote |-> "skipped"]
    ELSE [config |-> [cfg EXCEPT ![field] = value],
          store |-> IF ok THEN [st EXCEPT ![field] = Stored(value)] ELSE st,
          wrote |-> IF ok THEN "ok" ELSE "failed"]

----------------------------------------------------------------------------
(* domain::project and the file system *)

Project(name, modify) == [name |-> name, modify |-> modify]

\* a directory entry: kind "ok"; "ioerr" (read_dir yields Err for it);
\* "nonutf8" (file_name().to_str() is None); "nometa" (metadata() or
\* modified() fails)
DirEntry(name, modify, kind) == [name |-> name, modify |-> modify, kind |-> kind]

EntryP == DirEntry(<<"p">>, 1, "ok")
EntryQ == DirEntry(<<"q">>, 2, "ok")
EntryX == DirEntry(<<"x">>, 2, "nometa")
EntryY == DirEntry(<<"y">>, 1, "nonutf8")
EntryZ == DirEntry(<<"z">>, 1, "ioerr")
Entries == {EntryP, EntryQ, EntryX, EntryY, EntryZ}

MissingDir == [kind |-> "missing", entries |-> <<>>]
LockedDir == [kind |-> "locked", entries |-> <<>>]
Dir(entries) == [kind |-> "dir", entries |-> entries]

\* Path::exists
exists(fsys, path) == path \in DOMAIN fsys /\ fsys[path].kind # "missing"

try_from_unchecked_metadata(entry) ==
    IF entry.kind = "nonutf8" THEN [ok |-> FALSE, project |-> Project(<<>>, 0)]
    ELSE [ok |-> TRUE, project |-> Project(entry.name, entry.modify)]

\* impl TryFrom<DirEntry> for Project
try_from(entry) ==
    IF entry.kind = "nonutf8" THEN [ok |-> FALSE, project |-> Project(<<>>, 0)]
    ELSE IF entry.kind = "nometa" THEN [ok |-> FALSE, project |-> Project(<<>>, 0)]
    ELSE [ok |-> TRUE, project |-> Project(entry.name, entry.modify)]

\* the filter_map chain of Message::UpdateProjects over the read_dir iterator
RECURSIVE collect_projects(_)
collect_projects(entries) ==
    IF entries = <<>> THEN <<>>
    ELSE LET dir == Head(entries)
             rest == collect_projects(Tail(entries))
         IN IF dir.kind = "ioerr" THEN rest
            ELSE IF try_from(dir).ok THEN <<try_from(dir).project>> \o rest
            ELSE rest

----------------------------------------------------------------------------
(* app: AppModel *)

Msg(type, arg) == [type |-> type, arg |-> arg]

\* the filter closure of AppModel::filter_projects
matches(name, text) == text = <<>> \/ contains(name, text)

RECURSIVE filtered(_, _)
filtered(projs, text) ==
    IF projs = <<>> THEN <<>>
    ELSE IF matches(Head(projs).name, text)
         THEN <<Head(projs)>> \o filtered(Tail(projs), text)
         ELSE filtered(Tail(projs), text)

RECURSIVE insert_before_equal(_, _)
insert_before_equal(sorted, project) ==
    IF sorted = <<>> THEN <<project>>
    ELSE IF Head(sorted).modify > project.modify
         THEN <<Head(sorted)>> \o insert_before_equal(Tail(sorted), project)
         ELSE <<project>> \o sorted

\* one step of the stable sort under |a, b| b.modify().cmp(a.modify()): the
\* project goes behind every project that does not compare greater
RECURSIVE insert_sorted(_, _)
insert_sorted(sorted, project) ==
    IF sorted = <<>> THEN <<project>>
    ELSE IF Head(sorted).modify >= project.modify
         THEN <<Head(sorted)>> \o insert_sorted(Tail(sorted), project)
         ELSE <<project>> \o sorted

\* Itertools::sorted_by(|a, b| b.modify().cmp(a.modify())), a stable sort
RECURSIVE sorted_by_modify(_, _)
sorted_by_modify(sorted, rest) ==
    IF rest = <<>> THEN sorted
    ELSE sorted_by_modify(insert_sorted(sorted, Head(rest)), Tail(rest))

\* AppModel::filter_projects over a given list and search text
filter_projects_of(projs, text) == sorted_by_modify(<<>>, filtered(projs, text))

\* AppModel::filter_projects
filter_projects == filter_projects_of(projects, search_text)

\* AppModel::projects: one row per filtered project, named after it
rows_of(projs, text) ==
    LET list == filter_projects_of(projs, text)
    IN [i \in 1..Len(list) |-> list[i].name]

\* Iterator::find(|program| program.name() == program_name): the index of
\* the first program of that name, 0 when there is none
RECURSIVE find_from(_, _, _)
find_from(progs, name, i) ==
    IF i > Len(progs) THEN 0
    ELSE IF progs[i].name = name THEN i
    ELSE find_from(progs, name, i + 1)

\* PathBuf::push of a relative component
push(path, component) ==
    IF starts_with(component, <<"/">>) THEN component
    ELSE IF path = <<>> \/ path[Len(path)] = "/" THEN path \o component
    ELSE path \o <<"/">> \o component

replace_first(s, from, to) ==
    IF ~contains(s, from) THEN s
    ELSE LET k == CHOOSE k \in 0..(Len(s) - Len(from)) :
                    /\ SubSeq(s, k + 1, k + Len(from)) = from
                    /\ \A h \in 0..(k - 1) : SubSeq(s, h + 1, h + Len(from)) # from
         IN SubSeq(s, 1, k) \o to \o SubSeq(s, k + Len(from) + 1, Len(s))

\* str::replace: every non-overlapping match, from the left
RECURSIVE replace(_, _, _)
replace(s, from, to) ==
    IF s = <<>> THEN <<>>
    ELSE IF starts_with(s, from)
         THEN to \o replace(SubSeq(s, Len(from) + 1, Len(s)), from, to)
         ELSE <<Head(s)>> \o replace(Tail(s), from, to)

\* char::is_whitespace
is_whitespace(c) == c \in {" ", "\t", "\n"}

\* str::split_whitespace: `word` is the token being read
RECURSIVE split_from(_, _)
split_from(s, word) ==
    LET done == IF word = <<>> THEN <<>> ELSE <<word>> IN
    IF s = <<>> THEN done
    ELSE IF is_whitespace(Head(s)) THEN done \o split_from(Tail(s), <<>>)
    ELSE split_from(Tail(s), Append(word, Head(s)))

\* str::split_whitespace, collected
split_whitespace(s) == split_from(s, <<>>)

\* AppModel::is_valid_program over given inputs and registry
is_valid_program_of(name, command, progs) ==
    /\ ~(name = <<>>)
    /\ is_valid_command(command)
    /\ ~(\E i \in 1..Len(progs) : progs[i].name = name)

\* AppModel::is_valid_program
is_valid_program ==
    is_valid_program_of(program_name_input, program_command_input, programs)

\* What ContextPage::settings builds its widgets from: whether the add button
\* has an on_press, the names of the delete buttons, and the path the save
\* button carries when root_path_input exists
view_of(progs, name, command, root_input, fsys) ==
    [add |-> is_valid_program_of(name, command, progs),
     programs |-> [i \in 1..Len(progs) |-> progs[i].name],
     root |-> IF exists(fsys, root_input) THEN Some(root_input) ELSE None]

RECURSIVE retain_matching(_, _)
retain_matching(progs, name) ==
    IF progs = <<>> THEN <<>>
    ELSE IF Head(progs).name = name
         THEN <<Head(progs)>> \o retain_matching(Tail(progs), name)
         ELSE retain_matching(Tail(progs), name)

\* Vec::retain(|program| program.name() != name)
RECURSIVE retain(_, _)
retain(progs, name) ==
    IF progs = <<>> THEN <<>>
    ELSE IF Head(progs).name # name
         THEN <<Head(progs)>> \o retain(Tail(progs), name)
         ELSE retain(Tail(progs), name)

\* the root path as init turns it into root_path_input
path_to_input(root) == IF root = None THEN <<>> ELSE root[1]

ProgramA == Program(NameA, CmdPath)
ProgramB == Program(NameB, CmdCodePath)

StoreOf(root, progs) == [project_root_path |-> root, programs |-> progs]

\* the stores a session may start from: never written, written in full,
\* with one key corrupt, and with a root that has since been removed
InitStores ==
    {StoreOf(Missing, Missing),
     StoreOf(Stored(Some(PathR)), Stored(<<ProgramA, ProgramB>>)),
     StoreOf(Stored(Some(PathR)), Corrupt),
     StoreOf(Corrupt, Stored(<<ProgramA, ProgramB>>)),
     StoreOf(Stored(Some(PathGone)), Stored(<<ProgramA, ProgramB>>)),
     StoreOf(Stored(Some(PathLocked)), Missing)}

\* the Configs another writer of the store may leave
ExternalConfigs ==
    {[project_root_path |-> None, programs |-> <<>>],
     [project_root_path |-> Some(PathS), programs |-> <<ProgramB>>]}

FixedFs ==
    [p \in Paths |->
        IF p = PathR THEN Dir(<<EntryP, EntryX>>)
        ELSE IF p = PathS THEN Dir(<<>>)
        ELSE IF p = PathLocked THEN LockedDir
        ELSE MissingDir]

\* AppModel::init with the store and file system it finds
init(backend, st, fsys) ==
    LET l == load(backend, st) IN
    /\ status = "running"
    /\ config_handler = l.handler
    /\ config = l.config
    /\ store = st
    /\ programs = l.config.programs
    /\ projects = <<>>
    /\ root_path_input = path_to_input(l.config.project_root_path)
    /\ program_name_input = <<>>
    /\ program_command_input = <<>>
    /\ msgs = <<Msg("UpdateProjects", <<>>)>>
    /\ view = view_of(l.config.programs, <<>>, <<>>,
                      path_to_input(l.config.project_root_path), fsys)
    /\ fs = fsys
    /\ last = [msg |-> "init", wrote |-> "none", prev |-> <<>>]
    /\ events = 0
    /\ search_text = <<>>
    /\ shown = <<>>
    /\ spawned = None

Init ==
    \/ \E st \in InitStores : init(TRUE, st, FixedFs)
    \/ init(FALSE, StoreOf(Missing, Missing), FixedFs)

----------------------------------------------------------------------------
(* Input events: what the widgets of the current view emit *)

CanEmit ==
    /\ status = "running"
    /\ events < MaxEvents
    /\ Len(msgs) < MaxBatch

Emit(m) ==
    /\ msgs' = Append(msgs, m)
    /\ events' = events + 1
    /\ UNCHANGED <<status, config_handler, config, store, programs, projects,
                   root_path_input, program_name_input, program_command_input,
                   view, fs, last, search_text, shown, spawned>>

PendingSaves == Cardinality({i \in 1..Len(msgs) : msgs[i].type = "ProgramSave"})

\* ContextPage::program_input: the name text_input's on_input
NameInput ==
    /\ CanEmit
    /\ \E text \in NameInputs : Emit(Msg("ProgramNameInputChanged", text))

\* ContextPage::program_input: the command text_input's on_input
CommandInput ==
    /\ CanEmit
    /\ \E text \in CommandInputs : Emit(Msg("ProgramCommandInputChanged", text))

\* ContextPage::program_input: the add button, pressable only if the view was
\* built with is_valid_program() true
AddPressed ==
    /\ CanEmit
    /\ view.add
    /\ Len(programs) + PendingSaves < MaxPrograms
    /\ Emit(Msg("ProgramSave", <<>>))

\* ContextPage::program: the delete button of one listed program
DeletePressed ==
    /\ CanEmit
    /\ \E i \in 1..Len(view.programs) : Emit(Msg("ProgramDelete", view.programs[i]))

\* ContextPage::root_path: the text_input's on_input
RootInput ==
    /\ CanEmit
    /\ \E text \in RootInputs : Emit(Msg("RootPathInputChanged", text))

\* ContextPage::root_path: the save button, pressable only if the view was
\* built with root_path_input naming an existing path
RootSavePressed ==
    /\ CanEmit
    /\ view.root # None
    /\ Emit(Msg("RootPathSave", view.root[1]))

\* AppModel::subscription: watch_config reports a Config another writer left
\* in the store
ConfigWatched ==
    /\ CanEmit
    /\ config_handler = "Some"
    /\ \E c \in ExternalConfigs :
          /\ c # get_entry(store)
          /\ store' = StoreOf(Stored(c.project_root_path), Stored(c.programs))
          /\ msgs' = Append(msgs, Msg("UpdateConfig", c))
    /\ events' = events + 1
    /\ UNCHANGED <<status, config_handler, config, programs, projects,
                   root_path_input, program_name_input, program_command_input,
                   view, fs, last, search_text, shown, spawned>>

----------------------------------------------------------------------------
(* AppModel::update, one action per Message *)

Handling(type) ==
    /\ status = "running"
    /\ msgs # <<>>
    /\ Head(msgs).type = type

\* update returns; once the queue is drained the runtime calls view again
Returned(type, wrote) ==
    /\ msgs' = Tail(msgs)
    /\ last' = [msg |-> type, wrote |-> wrote, prev |-> programs]
    /\ view' = IF Tail(msgs) = <<>>
               THEN view_of(programs', program_name_input',
                            program_command_input', root_path_input', fs)
               ELSE view
    /\ shown' = IF Tail(msgs) = <<>>
                THEN rows_of(projects', search_text')
                ELSE shown
    /\ UNCHANGED <<status, config_handler, fs, events>>

\* update returns from a handler that touches neither the search text nor
\* a child process
Handled(type, wrote) ==
    /\ UNCHANGED <<search_text, spawned>>
    /\ Returned(type, wrote)

\* an unwrap() on None or Err: the session ends
Panic(type) ==
    /\ status' = "panicked"
    /\ last' = [msg |-> type, wrote |-> "none", prev |-> programs]
    /\ UNCHANGED <<config_handler, config, store, programs, projects,
                   root_path_input, program_name_input, program_command_input,
                   msgs, view, fs, events, search_text, shown, spawned>>

UpdateConfigRescanning ==
    /\ Handling("UpdateConfig")
    /\ config' = Head(msgs).arg
    /\ projects' = <<>>
    /\ UNCHANGED <<store, programs, root_path_input,
                   program_name_input, program_command_input>>
    /\ Handled("UpdateConfig", "none")

\* Message::UpdateConfig
UpdateConfig ==
    /\ Handling("UpdateConfig")
    /\ config' = Head(msgs).arg
    /\ UNCHANGED <<store, programs, projects, root_path_input,
                   program_name_input, program_command_input>>
    /\ Handled("UpdateConfig", "none")

\* Message::RootPathInputChanged
RootPathInputChanged ==
    /\ Handling("RootPathInputChanged")
    /\ root_path_input' = Head(msgs).arg
    /\ UNCHANGED <<config, store, programs, projects,
                   program_name_input, program_command_input>>
    /\ Handled("RootPathInputChanged", "none")

\* Message::RootPathSave
RootPathSave ==
    /\ Handling("RootPathSave")
    /\ IF config_handler = "None"
       THEN Panic("RootPathSave")
       ELSE \E ok \in BOOLEAN :
              LET r == set_field(config, store, "project_root_path",
                                 Some(Head(msgs).arg), ok)
              IN /\ config' = r.config
                 /\ store' = r.store
                 /\ UNCHANGED <<programs, projects, root_path_input,
                                program_name_input, program_command_input>>
                 /\ Handled("RootPathSave", r.wrote)

\* Message::ProgramCommandInputChanged
ProgramCommandInputChanged ==
    /\ Handling("ProgramCommandInputChanged")
    /\ program_command_input' = Head(msgs).arg
    /\ UNCHANGED <<config, store, programs, projects, root_path_input,
                   program_name_input>>
    /\ Handled("ProgramCommandInputChanged", "none")

\* Message::ProgramNameInputChanged
ProgramNameInputChanged ==
    /\ Handling("ProgramNameInputChanged")
    /\ program_name_input' = Head(msgs).arg
    /\ UNCHANGED <<config, store, programs, projects, root_path_input,
                   program_command_input>>
    /\ Handled("ProgramNameInputChanged", "none")

pushed_front(progs, name, command) == <<Program(name, command)>> \o progs

\* the registry after Message::ProgramSave's push
pushed(progs, name, command) == Append(progs, Program(name, command))

\* Message::ProgramSave, save_programs included
ProgramSave ==
    /\ Handling("ProgramSave")
    /\ IF config_handler = "None"
       THEN Panic("ProgramSave")
       ELSE \E ok \in BOOLEAN :
              LET list == pushed(programs, program_name_input, program_command_input)
                  r == set_field(config, store, "programs", list, ok)
              IN /\ programs' = list
                 /\ program_command_input' = <<>>
                 /\ program_name_input' = <<>>
                 /\ config' = r.config
                 /\ store' = r.store
                 /\ UNCHANGED <<projects, root_path_input>>
                 /\ Handled("ProgramSave", r.wrote)

\* Message::ProgramDelete, save_programs included
ProgramDelete ==
    /\ Handling("ProgramDelete")
    /\ IF config_handler = "None"
       THEN Panic("ProgramDelete")
       ELSE \E ok \in BOOLEAN :
              LET list == retain(programs, Head(msgs).arg)
                  r == set_field(config, store, "programs", list, ok)
              IN /\ programs' = list
                 /\ config' = r.config
                 /\ store' = r.store
                 /\ UNCHANGED <<projects, root_path_input,
                                program_name_input, program_command_input>>
                 /\ Handled("ProgramDelete", r.wrote)

\* Message::UpdateProjects
UpdateProjects ==
    /\ Handling("UpdateProjects")
    /\ IF config.project_root_path = None
       THEN /\ UNCHANGED <<config, store, programs, projects, root_path_input,
                           program_name_input, program_command_input>>
            /\ Handled("UpdateProjects", "none")
       ELSE LET dir == fs[config.project_root_path[1]] IN
            IF dir.kind # "dir"
            THEN Panic("UpdateProjects")
            ELSE /\ projects' = collect_projects(dir.entries)
                 /\ UNCHANGED <<config, store, programs, root_path_input,
                                program_name_input, program_command_input>>
                 /\ Handled("UpdateProjects", "none")

Next ==
    \/ NameInput
    \/ CommandInput
    \/ AddPressed
    \/ DeletePressed
    \/ RootInput
    \/ RootSavePressed
    \/ ConfigWatched
    \/ UpdateConfig
    \/ RootPathInputChanged
    \/ RootPathSave
    \/ ProgramCommandInputChanged
    \/ ProgramNameInputChanged
    \/ ProgramSave
    \/ ProgramDelete
    \/ UpdateProjects

Spec == Init /\ [][Next]_vars

----------------------------------------------------------------------------
(* The scan over every small directory: the session starts with its root at
   one of the paths, and the directory at PathR holds any listing of up to
   MaxEntries distinct entries *)

Listings ==
    UNION {{l \in [1..n -> Entries] : \A i, j \in 1..n : l[i] = l[j] => i = j} :
           n \in 0..MaxEntries}

ScanStores ==
    [project_root_path : {Missing} \cup {Stored(Some(p)) : p \in Paths},
     programs : {Missing}]

InitScan ==
    \E st \in ScanStores, l \in Listings :
        init(TRUE, st, [FixedFs EXCEPT ![PathR] = Dir(l)])

NextScan == UpdateProjects

SpecScan == InitScan /\ [][NextScan]_vars

----------------------------------------------------------------------------
(* Launching: the session starts with its root at PathR and a registry an
   earlier session persisted, scans, and launches programs on the listed
   projects while the root is edited or the Config is updated from outside *)

NameP == <<"p">>
NameSpaced == <<"p", " ", "q">>
EntrySpaced == DirEntry(NameSpaced, 2, "ok")

CmdTwice == <<"c", " ">> \o Placeholder \o <<" ", " ">> \o Placeholder
ProgramTwice == Program(NameB, CmdTwice)
\* what a ProgramSave handled with both inputs empty leaves in the store
ProgramBlank == Program(<<>>, <<>>)

LaunchStores ==
    {StoreOf(Stored(Some(PathR)), Stored(<<ProgramA, ProgramTwice>>)),
     StoreOf(Stored(Some(PathR)), Stored(<<ProgramB, ProgramBlank>>))}

LaunchListings == {<<EntryP>>, <<EntrySpaced, EntryX>>, <<EntryP, EntrySpaced>>}

InitLaunch ==
    \E st \in LaunchStores, l \in LaunchListings :
        init(TRUE, st, [FixedFs EXCEPT ![PathR] = Dir(l)])

\* AppModel::project: the button of one program in the row of one project
LaunchPressed ==
    /\ CanEmit
    /\ \E i \in 1..Len(shown), j \in 1..Len(view.programs) :
          Emit(Msg("LaunchProject", [program_name |-> view.programs[j],
                                     project_name |-> shown[i]]))

\* Message::LaunchProject; the Result of spawn() is discarded
LaunchProject ==
    /\ Handling("LaunchProject")
    /\ LET arg == Head(msgs).arg
           found == find_from(programs, arg.program_name, 1)
       IN IF found = 0
          THEN /\ UNCHANGED <<config, store, programs, projects, root_path_input,
                              program_name_input, program_command_input>>
               /\ Handled("LaunchProject", "none")
          ELSE IF config.project_root_path = None
          THEN Panic("LaunchProject")
          ELSE LET path == push(config.project_root_path[1], arg.project_name)
                   command == replace(programs[found].command, Placeholder, path)
                   tokens == split_whitespace(command)
               IN IF tokens = <<>>
                  THEN Panic("LaunchProject")
                  ELSE /\ spawned' = Some([exec |-> Head(tokens),
                                           args |-> Tail(tokens)])
                       /\ UNCHANGED <<config, store, programs, projects,
                                      root_path_input, program_name_input,
                                      program_command_input, search_text>>
                       /\ Returned("LaunchProject", "none")

NextLaunch ==
    \/ UpdateProjects
    \/ RootInput
    \/ RootPathInputChanged
    \/ RootSavePressed
    \/ RootPathSave
    \/ ConfigWatched
    \/ UpdateConfig
    \/ LaunchPressed
    \/ LaunchProject

SpecLaunch == InitLaunch /\ [][NextLaunch]_vars

----------------------------------------------------------------------------
(* The search filter over every small project list: the session starts with
   its root at PathR, whose directory holds any listing of up to MaxListed
   entries with distinct names and retrievable modification times *)

NameLowerAb == <<"a", "b">>
NameUpperAb == <<"A", "b">>
NameBa == <<"b", "a">>
NameC == <<"c">>
ListedNames == {NameLowerAb, NameUpperAb, NameBa, NameC}
ListedEntries == {DirEntry(n, t, "ok") : n \in ListedNames, t \in {1, 2}}

SearchInputs == {<<>>, <<"b">>, NameLowerAb}

FilterListings ==
    UNION {{l \in [1..n -> ListedEntries] :
               \A i, j \in 1..n : l[i].name = l[j].name => i = j} :
           n \in 0..MaxListed}

InitFilter ==
    \E l \in FilterListings :
        init(TRUE, StoreOf(Stored(Some(PathR)), Missing),
             [FixedFs EXCEPT ![PathR] = Dir(l)])

\* AppModel::view: the search_input's on_input
SearchInput ==
    /\ CanEmit
    /\ \E text \in SearchInputs : Emit(Msg("SearchTextInputChanged", text))

\* Message::SearchTextInputChanged
SearchTextInputChanged ==
    /\ Handling("SearchTextInputChanged")
    /\ search_text' = Head(msgs).arg
    /\ UNCHANGED <<config, store, programs, projects, root_path_input,
                   program_name_input, program_command_input, spawned>>
    /\ Returned("SearchTextInputChanged", "none")

NextFilter ==
    \/ UpdateProjects
    \/ SearchInput
    \/ SearchTextInputChanged

SpecFilter == InitFilter /\ [][NextFilter]_vars

----------------------------------------------------------------------------
(* Vocabulary of the properties *)

\* t occurs in s as a contiguous run
HasSubstring(s, t) ==
    \E k \in 0..(Len(s) - Len(t)) : SubSeq(s, k + 1, k + Len(t)) = t

\* a string with its upper-case letters lowered
ToLower(s) ==
    [i \in 1..Len(s) |-> IF s[i] = "A" THEN "a"
                         ELSE IF s[i] = "B" THEN "b"
                         ELSE IF s[i] = "C" THEN "c"
                         ELSE s[i]]

\* where a stable descending sort by modification time puts projects[i]
RankByModify(i) ==
    1 + Cardinality({k \in 1..Len(projects) : projects[k].modify > projects[i].modify})
      + Cardinality({k \in 1..(i - 1) : projects[k].modify = projects[i].modify})

\* the command holds %path% at some position
HasPlaceholder(command) ==
    \E k \in 1..(Len(command) - Len(Placeholder) + 1) :
        SubSeq(command, k, k + Len(Placeholder) - 1) = Placeholder

\* every program is named, no two share a name, every command has %path%
ValidPrograms(list) ==
    /\ \A i \in 1..Len(list) : Len(list[i].name) > 0 /\ HasPlaceholder(list[i].command)
    /\ \A i, j \in 1..Len(list) : list[i].name = list[j].name => i = j

\* this step is update handling the message at the head of the queue
Step(type) ==
    /\ Handling(type)
    /\ msgs' = Tail(msgs) \/ status' = "panicked"

\* the maximal runs of characters of s that hold no whitespace, in order
Words(s) ==
    LET starts == {i \in 1..Len(s) :
                      /\ ~is_whitespace(s[i])
                      /\ i = 1 \/ is_whitespace(s[i - 1])}
    IN [k \in 1..Cardinality(starts) |->
          LET i == CHOOSE x \in starts :
                       Cardinality({y \in starts : y < x}) = k - 1
              j == CHOOSE x \in i..Len(s) :
                       /\ \A y \in i..x : ~is_whitespace(s[y])
                       /\ x = Len(s) \/ is_whitespace(s[x + 1])
          IN SubSeq(s, i, j)]

\* the words of a command, each word that is the placeholder giving way
\* to the words of the path
RECURSIVE WordsWithPath(_, _)
WordsWithPath(words, path) ==
    IF words = <<>> THEN <<>>
    ELSE (IF Head(words) = Placeholder THEN Words(path) ELSE <<Head(words)>>)
         \o WordsWithPath(Tail(words), path)

\* the root and a project name, joined by one separator
Joined(root, name) == root \o <<"/">> \o name

\* the program a queued launch names, if the registry has it
Launched == find_from(programs, Head(msgs).arg.program_name, 1)

\* how many messages of a type are queued
Queued(q, type) == Cardinality({i \in 1..Len(q) : q[i].type = type})

----------------------------------------------------------------------------
(* Properties *)

\* C1 (as claimed): every program in the persisted program list has a
\* non-empty name, a name unique within the list, and a command with %path%.
C1_PersistedProgramsValid ==
    store.programs.st = "ok" => ValidPrograms(store.programs.v)

\* C2 (as claimed): a ProgramSave for which is_valid_program is false leaves
\* the registry unchanged and persists nothing.
C2_InvalidAddIsNoOp ==
    [][(Step("ProgramSave") /\ ~is_valid_program)
        => (programs' = programs /\ store' = store /\ config' = config)]_vars

\* C3: is_valid_program is true exactly when the name input is non-empty, no
\* program of the registry has that name, and the command input contains
\* %path%; the add button the view builds follows it.
C3_ValidateIff ==
    /\ is_valid_program <=>
          /\ Len(program_name_input) > 0
          /\ \A i \in 1..Len(programs) : programs[i].name # program_name_input
          /\ HasPlaceholder(program_command_input)
    /\ (status = "running" /\ msgs = <<>>) =>
          (view.add <=>
             /\ Len(program_name_input) > 0
             /\ \A i \in 1..Len(programs) : programs[i].name # program_name_input
             /\ HasPlaceholder(program_command_input))

\* C3 witness: validation passes against a non-empty registry for a command
\* whose placeholder is not at its start, and the add button is enabled
C3_Witness ==
    /\ is_valid_program
    /\ programs # <<>>
    /\ program_command_input = CmdCodePath
    /\ msgs = <<>>
    /\ view.add

\* C4: a ProgramDelete of a name the registry does not hold leaves the
\* registry unchanged, does not end the session and still calls the programs
\* setter; after any ProgramDelete no program of that name is left, so a
\* second removal of the name finds it absent and changes nothing.
C4_RemoveAbsent ==
    [][Step("ProgramDelete") =>
        LET name == Head(msgs).arg IN
        /\ (\A i \in 1..Len(programs) : programs[i].name # name) =>
              /\ status' = "running"
              /\ programs' = programs
              /\ last'.wrote # "none"
        /\ status' = "running" =>
              \A i \in 1..Len(programs') : programs'[i].name # name]_vars

\* C4 witness: a ProgramDelete was handled, the session runs on, and the
\* non-empty registry is the one the handler found
C4_Witness ==
    /\ last.msg = "ProgramDelete"
    /\ status = "running"
    /\ programs # <<>>
    /\ last.prev = programs
    /\ last.wrote # "none"

C6_RegistryIsConfigView ==
    status = "running" => programs = config.programs

\* C8 (as claimed): with no write handle, or when the write fails,
\* RootPathSave, ProgramSave and ProgramDelete do not end the session and
\* the in-memory root path or program list takes the new value.
C8_SessionSurvivesNoHandle ==
    [][((Step("RootPathSave") \/ Step("ProgramSave") \/ Step("ProgramDelete"))
         /\ (config_handler = "None" \/ last'.wrote = "failed")) =>
        /\ status' = "running"
        /\ Step("RootPathSave") => config'.project_root_path = Some(Head(msgs).arg)
        /\ (Step("ProgramSave") \/ Step("ProgramDelete")) =>
              config'.programs = programs']_vars

\* C9 (as claimed): UpdateProjects with the root path unset, missing or
\* unreadable yields an empty project list and the session continues.
C9_ScanOfBadRootIsEmpty ==
    [][(Step("UpdateProjects")
         /\ (config.project_root_path = None
             \/ fs[config.project_root_path[1]].kind # "dir")) =>
        (status' = "running" /\ projects' = <<>>)]_vars

\* the state AppModel::init leaves, before update has handled any message
AtInit == last.msg = "init" /\ events = 0

C10_ScanReadableEntries ==
    [][(Step("UpdateProjects")
         /\ config.project_root_path # None
         /\ fs[config.project_root_path[1]].kind = "dir") =>
        LET entries == fs[config.project_root_path[1]].entries
            readable == SelectSeq(entries, LAMBDA e : e.kind = "ok")
        IN /\ status' = "running"
           /\ Len(projects') =
                 Cardinality({i \in 1..Len(entries) : entries[i].kind = "ok"})
           /\ \A j \in 1..Len(readable) :
                 projects'[j] = [name |-> readable[j].name,
                                 modify |-> readable[j].modify]]_vars

\* C10 witness: a scan of the root produced at least one project and
\* skipped at least one entry
C10_Witness ==
    /\ last.msg = "UpdateProjects"
    /\ status = "running"
    /\ config.project_root_path = Some(PathR)
    /\ Len(projects) >= 1
    /\ Len(fs[PathR].entries) > Len(projects)

\* C11: filter_projects with an empty search text returns every project
\* exactly once, most recently modified first, projects of equal time in
\* their order in the list; the rows the view builds follow it.
C11_EmptyQuerySortsAll ==
    LET result == filter_projects_of(projects, <<>>) IN
    /\ Len(result) = Len(projects)
    /\ \A i \in 1..Len(projects) : result[RankByModify(i)] = projects[i]
    /\ (status = "running" /\ msgs = <<>> /\ search_text = <<>>) =>
          shown = [i \in 1..Len(projects) |-> result[i].name]

\* C11 witness: three projects, the first two of equal time and the third
\* newer, are shown newest first with the tie in list order
C11_Witness ==
    /\ search_text = <<>>
    /\ msgs = <<>>
    /\ Len(projects) = 3
    /\ projects[1].modify = projects[2].modify
    /\ projects[3].modify > projects[1].modify
    /\ shown = <<projects[3].name, projects[1].name, projects[2].name>>

\* C12 (as claimed): filter_projects selects exactly the projects whose
\* name contains the search text when letter case is ignored.
C12_SelectsIgnoringCase ==
    \A i \in 1..Len(projects) :
        (\E j \in 1..Len(filter_projects) : filter_projects[j] = projects[i])
        <=> HasSubstring(ToLower(projects[i].name), ToLower(search_text))

\* C13: a launch that goes through runs the command of the named program
\* with every placeholder replaced by the root joined with the project
\* name and split at whitespace: the first word is the executable, the
\* others its arguments; "c %path%" on "p" under "/r" runs c with the one
\* argument "/r/p".
C13_LaunchSubstitutesAndSplits ==
    [][(Step("LaunchProject") /\ Launched # 0 /\ status' = "running") =>
        LET arg == Head(msgs).arg
            path == Joined(config.project_root_path[1], arg.project_name)
            words == WordsWithPath(Words(programs[Launched].command), path)
        IN /\ spawned' # None
           /\ <<spawned'[1].exec>> \o spawned'[1].args = words
           /\ \A k \in 1..Len(words) : ~HasSubstring(words[k], Placeholder)
           /\ (programs[Launched].command = CmdCodePath
                 /\ arg.project_name = NameP
                 /\ config.project_root_path = Some(PathR)) =>
                 spawned' = Some([exec |-> <<"c">>,
                                  args |-> <<PathR \o <<"/">> \o NameP>>])]_vars

\* C13 witness: a command with two placeholders was launched on a project
\* and both became the joined path
C13_Witness ==
    /\ last.msg = "LaunchProject"
    /\ status = "running"
    /\ spawned = Some([exec |-> <<"c">>,
                       args |-> <<Joined(PathR, NameP), Joined(PathR, NameP)>>])

\* C14: a launch whose substituted command holds no word does not panic;
\* the session goes on with its Config, registry and project list as they
\* were.
C14_EmptyCommandDoesNotPanic ==
    [][(Step("LaunchProject") /\ Launched # 0
          /\ config.project_root_path # None
          /\ Words(programs[Launched].command) = <<>>) =>
        /\ status' = "running"
        /\ UNCHANGED <<config, store, programs, projects>>]_vars

\* C15: the project list changes only when UpdateProjects is handled, and
\* no UpdateProjects is queued after the one of init; RootPathSave and
\* UpdateConfig leave the list as it was, so a launch after a change of
\* root joins the new root with a name scanned under the old one.
C15_ListOnlyReplacedByScan ==
    [][/\ projects' # projects => Step("UpdateProjects")
       /\ (Step("RootPathSave") \/ Step("UpdateConfig")) => projects' = projects
       /\ Queued(msgs', "UpdateProjects") <= Queued(msgs, "UpdateProjects")
       /\ (Step("LaunchProject") /\ Launched # 0 /\ status' = "running"
            /\ programs[Launched].command = Placeholder
            /\ Head(msgs).arg.project_name = NameP) =>
            /\ \E i \in 1..Len(projects) : projects[i].name = NameP
            /\ spawned' = Some([exec |-> Joined(config.project_root_path[1], NameP),
                                args |-> <<>>])]_vars

\* C15 witness: the root is PathS, which holds no entry, the list still
\* holds a project scanned under PathR, and it was launched under PathS
C15_Witness ==
    /\ last.msg = "LaunchProject"
    /\ status = "running"
    /\ config.project_root_path = Some(PathS)
    /\ fs[PathS].entries = <<>>
    /\ \E i \in 1..Len(projects) : projects[i].name = NameP
    /\ fs[PathR].entries # <<>>
    /\ spawned = Some([exec |-> Joined(PathS, NameP), args |-> <<>>])

====
